---- MODULE Spec2Model ----
(* Model of cdk/cdk/alb_monitor_stack.py: the construction of the two CDK    *)
(* stacks ALBMonitorStack and ALBCloudWatchStack, statement by statement,    *)
(* and the CloudFormation parameter validation of a deployment.              *)
(* Strings that the code inspects are sequences of one-character strings.    *)
EXTENDS Integers, Sequences, FiniteSets, TLC

VARIABLES context, alb_alarm_lambda, first, mpc, mResources, mLocals,
          cpc, cResources, cLocals, error, deployment

vars == <<context, alb_alarm_lambda, first, mpc, mResources, mLocals,
          cpc, cResources, cLocals, error, deployment>>

mvars == <<mpc, mResources, mLocals>>
cvars == <<cpc, cResources, cLocals, error>>
inputs == <<context, alb_alarm_lambda, first>>

----------------------------------------------------------------------------
(* Bounds of the explored inputs *)

MaxAffixLen == 1
MaxOverrides == 1

----------------------------------------------------------------------------
(* Python values *)

None == [present |-> FALSE]
Some(v) == [present |-> TRUE, value |-> v]

Empty == [x \in {} |-> 0]

SeqsUpTo(S, n) == UNION {[1..k -> S] : k \in 0..n}

Min(a, b) == IF a < b THEN a ELSE b
Max(a, b) == IF a > b THEN a ELSE b

(* str.find(sub): lowest 0-based index where sub occurs in s, -1 if none *)
Find(s, sub) ==
    LET hits == {i \in 0..(Len(s) - Len(sub)) :
                    SubSeq(s, i + 1, i + Len(sub)) = sub}
    IN IF hits = {} THEN -1
       ELSE CHOOSE i \in hits : \A j \in hits : i <= j

(* s[start:stop] with Python's treatment of negative and oversized indices *)
Slice(s, start, stop) ==
    LET n  == Len(s)
        lo == IF start < 0 THEN Max(start + n, 0) ELSE Min(start, n)
        hi == IF stop < 0 THEN Max(stop + n, 0) ELSE Min(stop, n)
    IN SubSeq(s, lo + 1, hi)

(* cdk.Duration.minutes(n), held in seconds *)
Minutes(n) == n * 60

----------------------------------------------------------------------------
(* Inputs *)

Needle == <<"t", "a", "r", "g", "e", "t", "g", "r", "o", "u", "p">>

Alphabet == {"t", "/"}

Middles == {<<>>, Needle, SubSeq(Needle, 1, 6)}

ArnInputs ==
    {p \o m1 \o s \o m2 : p \in SeqsUpTo(Alphabet, MaxAffixLen),
                          m1 \in Middles,
                          s \in SeqsUpTo(Alphabet, MaxAffixLen),
                          m2 \in Middles}

ContextInputs == {None} \cup {Some(a) : a \in ArnInputs}

IFunctions == {"ALBAlarmLambda", "ImportedFunction"}

StackNames == {"ALBMonitorStack", "ALBCloudWatchStack"}

----------------------------------------------------------------------------
(* CloudFormation tokens *)

Ref(id) == [Ref |-> id]
GetAtt(id, attr) == [GetAtt |-> <<id, attr>>]

value_as_string(id) == Ref(id)
value_as_number(id) == Ref(id)
queue_arn(id) == GetAtt(id, "Arn")
queue_url(id) == Ref(id)
alarm_arn(id) == GetAtt(id, "Arn")

----------------------------------------------------------------------------
(* ALBMonitorStack.__init__ *)

StringParameter == [kind |-> "CfnParameter", type |-> "String"]

NumberParameter(lo, hi, dflt) ==
    [kind |-> "CfnParameter", type |-> "Number",
     min_value |-> lo, max_value |-> hi, default |-> dflt]

(* Variant: the shed delay declared without its lower bound of 60 *)
MonitorParameters_LooseDelay ==
    ("elbArn" :> StringParameter) @@
    ("elbListenerArn" :> StringParameter) @@
    ("elbShedPercent" :> NumberParameter(0, 100, 5)) @@
    ("maxElbShedPercent" :> NumberParameter(0, 100, 100)) @@
    ("elbRestorePercent" :> NumberParameter(0, 100, 5)) @@
    ("shedMesgDelaySec" :> NumberParameter(0, 300, 60)) @@
    ("restoreMesgDelaySec" :> NumberParameter(60, 300, 120))

MonitorParameters ==
    ("elbArn" :> StringParameter) @@
    ("elbListenerArn" :> StringParameter) @@
    ("elbShedPercent" :> NumberParameter(0, 100, 5)) @@
    ("maxElbShedPercent" :> NumberParameter(0, 100, 100)) @@
    ("elbRestorePercent" :> NumberParameter(0, 100, 5)) @@
    ("shedMesgDelaySec" :> NumberParameter(60, 300, 60)) @@
    ("restoreMesgDelaySec" :> NumberParameter(60, 300, 120))

QueueId == "alb_target_group_monitor_queue"

MonitorMayRun ==
    \/ first = "ALBMonitorStack"
    \/ cpc = "done"

M_Super ==
    /\ mpc = "start"
    /\ MonitorMayRun
    /\ mpc' = "elbArn"
    /\ UNCHANGED <<mResources, mLocals, cvars, inputs, deployment>>

DeclareMonitorParameter(id, next) ==
    /\ mpc = id
    /\ mResources' = mResources @@ (id :> MonitorParameters[id])
    /\ mpc' = next
    /\ UNCHANGED <<mLocals, cvars, inputs, deployment>>

M_ElbArn == DeclareMonitorParameter("elbArn", "elbListenerArn")
M_ElbListenerArn == DeclareMonitorParameter("elbListenerArn", "elbShedPercent")
M_ElbShedPercent == DeclareMonitorParameter("elbShedPercent", "maxElbShedPercent")
M_MaxElbShedPercent == DeclareMonitorParameter("maxElbShedPercent", "elbRestorePercent")
M_ElbRestorePercent == DeclareMonitorParameter("elbRestorePercent", "shedMesgDelaySec")
M_ShedMesgDelaySec == DeclareMonitorParameter("shedMesgDelaySec", "restoreMesgDelaySec")
M_RestoreMesgDelaySec == DeclareMonitorParameter("restoreMesgDelaySec", "queue")

M_Queue ==
    /\ mpc = "queue"
    /\ mResources' = mResources @@ (QueueId :> [kind |-> "Queue"])
    /\ mLocals' = mLocals @@ ("queue" :> QueueId)
    /\ mpc' = "send_sqs_json"
    /\ UNCHANGED <<cvars, inputs, deployment>>

(* Variant: the statement allows every SQS action *)
send_sqs_json_AllActions(queue) ==
    [Version |-> "2012-10-17",
     Statement |-> << [Effect |-> "Allow",
                       Action |-> "sqs:*",
                       Resource |-> queue_arn(queue)] >>]

send_sqs_json(queue) ==
    [Version |-> "2012-10-17",
     Statement |-> << [Effect |-> "Allow",
                       Action |-> "sqs:SendMessage",
                       Resource |-> queue_arn(queue)] >>]

M_SendSqsJson ==
    /\ mpc = "send_sqs_json"
    /\ mLocals' = mLocals @@ ("send_sqs_json" :> send_sqs_json(mLocals["queue"]))
    /\ mpc' = "policy_document"
    /\ UNCHANGED <<mResources, cvars, inputs, deployment>>

(* aws_iam.PolicyDocument.from_json: a statement's scalar Action and        *)
(* Resource become one-element lists of actions and resources.              *)
PolicyStatementFromJson(st) ==
    [effect |-> st.Effect, actions |-> <<st.Action>>, resources |-> <<st.Resource>>]

PolicyDocumentFromJson(json) ==
    [statements |-> [i \in 1..Len(json.Statement) |->
                        PolicyStatementFromJson(json.Statement[i])]]

M_PolicyDocument ==
    /\ mpc = "policy_document"
    /\ mLocals' = mLocals @@ ("send_sqs_policy_document" :>
                                PolicyDocumentFromJson(mLocals["send_sqs_json"]))
    /\ mpc' = "role"
    /\ UNCHANGED <<mResources, cvars, inputs, deployment>>

ManagedPolicies ==
    << [id |-> "lambda_execute",
        managed_policy_arn |-> "arn:aws:iam::aws:policy/AWSLambdaExecute"],
       [id |-> "lambda_sqs_execute",
        managed_policy_arn |-> "arn:aws:iam::aws:policy/service-role/AWSLambdaSQSQueueExecutionRole"],
       [id |-> "cloud_watch_read",
        managed_policy_arn |-> "arn:aws:iam::aws:policy/CloudWatchReadOnlyAccess"],
       [id |-> "elb_read",
        managed_policy_arn |-> "arn:aws:iam::aws:policy/ElasticLoadBalancingFullAccess"] >>

lambda_execution_role(doc) ==
    [kind |-> "Role",
     assumed_by |-> <<"lambda.amazonaws.com">>,
     managed_policies |-> ManagedPolicies,
     inline_policies |-> <<doc>>]

M_Role ==
    /\ mpc = "role"
    /\ mResources' = mResources @@
          ("ALB_Lambda_Role" :> lambda_execution_role(mLocals["send_sqs_policy_document"]))
    /\ mLocals' = mLocals @@ ("lambda_execution_role" :> "ALB_Lambda_Role")
    /\ mpc' = "layer"
    /\ UNCHANGED <<cvars, inputs, deployment>>

M_Layer ==
    /\ mpc = "layer"
    /\ mResources' = mResources @@
          ("ALBMonitorLayer" :>
              [kind |-> "LayerVersion",
               layer_version_name |-> "ALBMonitorLayer",
               compatible_runtimes |-> <<"python3.7", "python3.8">>,
               code |-> "resources/lambda_layer/elb_load_monitor.zip"])
    /\ mLocals' = mLocals @@ ("elb_monitor_layer" :> "ALBMonitorLayer")
    /\ mpc' = "alarm_lambda"
    /\ UNCHANGED <<cvars, inputs, deployment>>

(* Variant: the shed and restore percentages are bound to each other's parameter *)
AlarmLambdaEnvironment_Swapped(queue) ==
    ("ELB_ARN" :> value_as_string("elbArn")) @@
    ("ELB_LISTENER_ARN" :> value_as_string("elbListenerArn")) @@
    ("SQS_QUEUE_URL" :> queue_url(queue)) @@
    ("ELB_SHED_PERCENT" :> value_as_string("elbRestorePercent")) @@
    ("MAX_ELB_SHED_PERCENT" :> value_as_string("maxElbShedPercent")) @@
    ("ELB_RESTORE_PERCENT" :> value_as_string("elbShedPercent")) @@
    ("SHED_MESG_DELAY_SEC" :> value_as_string("shedMesgDelaySec")) @@
    ("RESTORE_MESG_DELAY_SEC" :> value_as_string("restoreMesgDelaySec"))

AlarmLambdaEnvironment(queue) ==
    ("ELB_ARN" :> value_as_string("elbArn")) @@
    ("ELB_LISTENER_ARN" :> value_as_string("elbListenerArn")) @@
    ("SQS_QUEUE_URL" :> queue_url(queue)) @@
    ("ELB_SHED_PERCENT" :> value_as_string("elbShedPercent")) @@
    ("MAX_ELB_SHED_PERCENT" :> value_as_string("maxElbShedPercent")) @@
    ("ELB_RESTORE_PERCENT" :> value_as_string("elbRestorePercent")) @@
    ("SHED_MESG_DELAY_SEC" :> value_as_string("shedMesgDelaySec")) @@
    ("RESTORE_MESG_DELAY_SEC" :> value_as_string("restoreMesgDelaySec"))

(* Variant: role= left out, so the function gets a role of its own *)
AlarmLambdaRole_Default(locals) == "ALBAlarmLambdaServiceRole"

AlarmLambdaRole(locals) == locals["lambda_execution_role"]

M_AlarmLambda ==
    /\ mpc = "alarm_lambda"
    /\ mResources' = mResources @@
          ("ALBAlarmLambda" :>
              [kind |-> "Function",
               function_name |-> "ALBAlarmLambda",
               code |-> "resources/lambda/alb_alarm_lambda_handler.zip",
               handler |-> "alb_alarm_lambda_handler.lambda_handler",
               runtime |-> "python3.8",
               environment |-> AlarmLambdaEnvironment(mLocals["queue"]),
               layers |-> <<mLocals["elb_monitor_layer"]>>,
               memory_size |-> 128,
               role |-> AlarmLambdaRole(mLocals)])
    /\ mLocals' = mLocals @@ ("self.alb_alarm_lambda" :> "ALBAlarmLambda")
    /\ mpc' = "sqs_lambda"
    /\ UNCHANGED <<cvars, inputs, deployment>>

M_SqsLambda ==
    /\ mpc = "sqs_lambda"
    /\ mResources' = mResources @@
          ("ALBSQSMessageLambda" :>
              [kind |-> "Function",
               function_name |-> "ALBSQSMessageLambda",
               code |-> "resources/lambda/alb_alarm_check_lambda_handler.zip",
               handler |-> "alb_alarm_check_lambda_handler.lambda_handler",
               runtime |-> "python3.8",
               environment |-> Empty,
               layers |-> <<mLocals["elb_monitor_layer"]>>,
               memory_size |-> 128,
               role |-> mLocals["lambda_execution_role"]])
    /\ mLocals' = mLocals @@ ("alb_sqs_alarm_lambda" :> "ALBSQSMessageLambda")
    /\ mpc' = "add_event_source"
    /\ UNCHANGED <<cvars, inputs, deployment>>

(* Variant: the event source is added to the decision function *)
EventSourceConsumer_AlarmLambda(locals) == locals["self.alb_alarm_lambda"]

EventSourceConsumer(locals) == locals["alb_sqs_alarm_lambda"]

M_AddEventSource ==
    /\ mpc = "add_event_source"
    /\ mResources' = mResources @@
          ("SqsEventSource" :>
              [kind |-> "EventSourceMapping",
               function |-> EventSourceConsumer(mLocals),
               queue |-> mLocals["queue"]])
    /\ mpc' = "done"
    /\ UNCHANGED <<mLocals, cvars, inputs, deployment>>

----------------------------------------------------------------------------
(* ALBCloudWatchStack.__init__ *)

CloudWatchMayRun ==
    \/ first = "ALBCloudWatchStack"
    \/ mpc = "done"

C_Super ==
    /\ cpc = "start"
    /\ CloudWatchMayRun
    /\ cpc' = "get_context"
    /\ UNCHANGED <<cResources, cLocals, error, mvars, inputs, deployment>>

try_get_context(key) == IF key = "elbTargetGroupArn" THEN context ELSE None

C_GetContext ==
    /\ cpc = "get_context"
    /\ cLocals' = cLocals @@ ("elb_target_group_arn" :> try_get_context("elbTargetGroupArn"))
    /\ cpc' = "check"
    /\ UNCHANGED <<cResources, error, mvars, inputs, deployment>>

(* Variant: the test is "if not elb_target_group_arn", which an empty string also meets *)
IsNone_Falsy(v) == IF v.present THEN v.value = <<>> ELSE TRUE

IsNone(v) == ~v.present

(* Variant: the message leaves the name of the context value out *)
ValueErrorMessage_Unnamed ==
    <<"Must", "specify", "context", "parameter", ".",
      "Usage", ":", "cdk", "<COMMAND>", "-c">>
    \o <<"<ELB_TARGET_GROUP_ARN>">>

ValueErrorMessage ==
    <<"Must", "specify", "context", "parameter", "elbTargetGroupArn", ".",
      "Usage", ":", "cdk", "<COMMAND>", "-c", "elbTargetGroupArn">>
    \o <<"<ELB_TARGET_GROUP_ARN>">>

C_Raise ==
    /\ cpc = "check"
    /\ IsNone(cLocals["elb_target_group_arn"])
    /\ error' = Some([type |-> "ValueError", message |-> ValueErrorMessage])
    /\ cpc' = "raised"
    /\ UNCHANGED <<cResources, cLocals, mvars, inputs, deployment>>

C_Pass ==
    /\ cpc = "check"
    /\ ~IsNone(cLocals["elb_target_group_arn"])
    /\ cpc' = "dimension"
    /\ UNCHANGED <<cResources, cLocals, error, mvars, inputs, deployment>>

target_group_dimension(arn) == Slice(arn, Find(arn, Needle), Len(arn))

C_Dimension ==
    /\ cpc = "dimension"
    /\ cLocals' = cLocals @@ ("target_group_dimension" :>
                                target_group_dimension(cLocals["elb_target_group_arn"].value))
    /\ cpc' = "cwAlarmNamespace"
    /\ UNCHANGED <<cResources, error, mvars, inputs, deployment>>

StringParameterWithDefault(dflt) ==
    [kind |-> "CfnParameter", type |-> "String", default |-> dflt]

NumberParameterWithDefault(dflt) ==
    [kind |-> "CfnParameter", type |-> "Number", default |-> dflt]

CloudWatchParameters ==
    ("cwAlarmNamespace" :> StringParameterWithDefault("AWS/ApplicationELB")) @@
    ("cwAlarmMetricName" :> StringParameterWithDefault("RequestCountPerTarget")) @@
    ("cwAlarmThreshold" :> NumberParameterWithDefault(500)) @@
    ("cwAlarmPeriods" :> NumberParameterWithDefault(3))

DeclareCloudWatchParameter(id, next) ==
    /\ cpc = id
    /\ cResources' = cResources @@ (id :> CloudWatchParameters[id])
    /\ cpc' = next
    /\ UNCHANGED <<cLocals, error, mvars, inputs, deployment>>

C_CwAlarmNamespace == DeclareCloudWatchParameter("cwAlarmNamespace", "cwAlarmMetricName")
C_CwAlarmMetricName == DeclareCloudWatchParameter("cwAlarmMetricName", "cwAlarmThreshold")
C_CwAlarmThreshold == DeclareCloudWatchParameter("cwAlarmThreshold", "cwAlarmPeriods")
C_CwAlarmPeriods == DeclareCloudWatchParameter("cwAlarmPeriods", "metric")

(* Variant: a five-minute period *)
request_count_per_target_metric_FiveMinutes(dimension) ==
    [namespace |-> value_as_string("cwAlarmNamespace"),
     metric_name |-> value_as_string("cwAlarmMetricName"),
     dimensions |-> ("TargetGroup" :> dimension),
     statistic |-> "sum",
     period |-> Minutes(5)]

request_count_per_target_metric(dimension) ==
    [namespace |-> value_as_string("cwAlarmNamespace"),
     metric_name |-> value_as_string("cwAlarmMetricName"),
     dimensions |-> ("TargetGroup" :> dimension),
     statistic |-> "sum",
     period |-> Minutes(1)]

C_Metric ==
    /\ cpc = "metric"
    /\ cLocals' = cLocals @@ ("request_count_per_target_metric" :>
                 request_count_per_target_metric(cLocals["target_group_dimension"]))
    /\ cpc' = "alarm"
    /\ UNCHANGED <<cResources, error, mvars, inputs, deployment>>

AlarmId == "ALBTargetGroupAlarm"

cw_alarm(metric) ==
    [kind |-> "Alarm",
     alarm_name |-> "ALBTargetGroupAlarm",
     alarm_description |-> "Alarm for RequestCountPerTarget",
     metric |-> metric,
     threshold |-> value_as_number("cwAlarmThreshold"),
     evaluation_periods |-> value_as_number("cwAlarmPeriods"),
     comparison_operator |-> "GreaterThanThreshold"]

C_Alarm ==
    /\ cpc = "alarm"
    /\ cResources' = cResources @@
          (AlarmId :> cw_alarm(cLocals["request_count_per_target_metric"]))
    /\ cLocals' = cLocals @@ ("cw_alarm" :> AlarmId)
    /\ cpc' = "rule"
    /\ UNCHANGED <<error, mvars, inputs, deployment>>

RuleId == "ALBTargetGroupAlarmEventRule"

C_Rule ==
    /\ cpc = "rule"
    /\ cResources' = cResources @@
          (RuleId :> [kind |-> "Rule",
                      rule_name |-> "ALBTargetGroupAlarmEventRule",
                      description |-> "EventBridge rule for ALB target",
                      event_pattern |-> Empty,
                      targets |-> <<>>])
    /\ cLocals' = cLocals @@ ("event_rule" :> RuleId)
    /\ cpc' = "add_event_pattern"
    /\ UNCHANGED <<error, mvars, inputs, deployment>>

(* Variant: the pattern does not name the alarm *)
AlarmEventPattern_AnyAlarm(alarm) ==
    ("source" :> {"aws.cloudwatch"}) @@
    ("detail_type" :> {"CloudWatch Alarm State Change"})

AlarmEventPattern(alarm) ==
    ("source" :> {"aws.cloudwatch"}) @@
    ("detail_type" :> {"CloudWatch Alarm State Change"}) @@
    ("resources" :> {alarm_arn(alarm)})

C_AddEventPattern ==
    /\ cpc = "add_event_pattern"
    /\ cResources' = [cResources EXCEPT ![cLocals["event_rule"]].event_pattern =
                         AlarmEventPattern(cLocals["cw_alarm"]) @@ @]
    /\ cpc' = "add_target"
    /\ UNCHANGED <<cLocals, error, mvars, inputs, deployment>>

LambdaFunctionTarget(handler) == [kind |-> "LambdaFunction", handler |-> handler]

C_AddTarget ==
    /\ cpc = "add_target"
    /\ cResources' = [cResources EXCEPT ![cLocals["event_rule"]].targets =
                         Append(@, LambdaFunctionTarget(alb_alarm_lambda))]
    /\ cpc' = "done"
    /\ UNCHANGED <<cLocals, error, mvars, inputs, deployment>>

(* An event is routed by a rule when every field the pattern names matches: *)
(* a scalar field by membership, the resources list by a common element.    *)
RuleMatches(pattern, event) ==
    /\ DOMAIN pattern # {}
    /\ "source" \in DOMAIN pattern => event.source \in pattern["source"]
    /\ "detail_type" \in DOMAIN pattern => event.detail_type \in pattern["detail_type"]
    /\ "resources" \in DOMAIN pattern => event.resources \cap pattern["resources"] # {}

----------------------------------------------------------------------------
(* Deployment of the synthesized ALBMonitorStack template: CloudFormation   *)
(* checks every supplied or defaulted Number parameter against the          *)
(* MinValue and MaxValue that its declaration carries.                      *)

NumericInputs == {-1, 0, 59, 60, 100, 101, 300, 301}

NumberParameterIds(resources) ==
    {id \in DOMAIN resources :
        resources[id].kind = "CfnParameter" /\ resources[id].type = "Number"}

ResolveParameters(resources, overrides) ==
    [id \in NumberParameterIds(resources) |->
        IF id \in DOMAIN overrides THEN overrides[id] ELSE resources[id].default]

ParameterInRange(decl, v) ==
    /\ "min_value" \in DOMAIN decl => v >= decl.min_value
    /\ "max_value" \in DOMAIN decl => v <= decl.max_value

DeployMonitor ==
    /\ mpc = "done"
    /\ cpc = "done"
    /\ deployment.status = "none"
    /\ \E ids \in SUBSET NumberParameterIds(mResources) :
          /\ Cardinality(ids) <= MaxOverrides
          /\ \E overrides \in [ids -> NumericInputs] :
                LET values == ResolveParameters(mResources, overrides)
                    ok == \A id \in DOMAIN values : ParameterInRange(mResources[id], values[id])
                IN deployment' = [status |-> IF ok THEN "accepted" ELSE "rejected",
                                  values |-> values]
    /\ UNCHANGED <<mvars, cvars, inputs>>

CloudWatchNext ==
    \/ C_Super
    \/ C_GetContext
    \/ C_Raise
    \/ C_Pass
    \/ C_Dimension
    \/ C_CwAlarmNamespace
    \/ C_CwAlarmMetricName
    \/ C_CwAlarmThreshold
    \/ C_CwAlarmPeriods
    \/ C_Metric
    \/ C_Alarm
    \/ C_Rule
    \/ C_AddEventPattern
    \/ C_AddTarget

MonitorNext ==
    \/ M_Super
    \/ M_ElbArn
    \/ M_ElbListenerArn
    \/ M_ElbShedPercent
    \/ M_MaxElbShedPercent
    \/ M_ElbRestorePercent
    \/ M_ShedMesgDelaySec
    \/ M_RestoreMesgDelaySec
    \/ M_Queue
    \/ M_SendSqsJson
    \/ M_PolicyDocument
    \/ M_Role
    \/ M_Layer
    \/ M_AlarmLambda
    \/ M_SqsLambda
    \/ M_AddEventSource

----------------------------------------------------------------------------

Init ==
    /\ context \in ContextInputs
    /\ alb_alarm_lambda \in IFunctions
    /\ first \in StackNames
    /\ mpc = "start"
    /\ mResources = Empty
    /\ mLocals = Empty
    /\ cpc = "start"
    /\ cResources = Empty
    /\ cLocals = Empty
    /\ error = None
    /\ deployment = [status |-> "none"]

Next ==
    \/ MonitorNext
    \/ CloudWatchNext
    \/ DeployMonitor

Spec == Init /\ [][Next]_vars

----------------------------------------------------------------------------
(* Properties *)

Declared(resources, id, kind) ==
    id \in DOMAIN resources /\ resources[id].kind = kind

Contains(s, sub) == Find(s, sub) >= 0

BeforeDeclarations == {"start", "get_context", "check", "raised"}

(* C1: with the context value elbTargetGroupArn absent, the construction of *)
(* ALBCloudWatchStack ends in a ValueError whose message names              *)
(* elbTargetGroupArn, and at no point on that path has a parameter, metric, *)
(* alarm or event rule of the stack been declared.                          *)
C1_AbsentContextAborts ==
    ~context.present =>
        /\ cpc \in BeforeDeclarations
        /\ DOMAIN cResources = {}
        /\ DOMAIN cLocals \subseteq {"elb_target_group_arn"}
        /\ cpc = "raised" =>
              /\ error.present
              /\ error.value.type = "ValueError"
              /\ Contains(error.value.message, <<"elbTargetGroupArn">>)
        /\ error.present => cpc = "raised"

C1_Witness ==
    /\ ~context.present
    /\ cpc = "raised"
    /\ error.present

(* C2: the policy document attached inline to the execution role holds      *)
(* exactly one statement: Allow, the single action sqs:SendMessage, the     *)
(* single resource the ARN of the queue created in this stack.              *)
C2_InlinePolicySendOnly ==
    Declared(mResources, "ALB_Lambda_Role", "Role") =>
        LET inline == mResources["ALB_Lambda_Role"].inline_policies
        IN /\ Len(inline) = 1
           /\ Len(inline[1].statements) = 1
           /\ inline[1].statements[1].effect = "Allow"
           /\ inline[1].statements[1].actions = <<"sqs:SendMessage">>
           /\ inline[1].statements[1].resources = <<GetAtt(QueueId, "Arn")>>
           /\ Declared(mResources, QueueId, "Queue")

C2_Witness ==
    /\ mpc = "done"
    /\ Declared(mResources, "ALB_Lambda_Role", "Role")
    /\ Len(mResources["ALB_Lambda_Role"].inline_policies) = 1

EventSourceMappings ==
    {id \in DOMAIN mResources : mResources[id].kind = "EventSourceMapping"}

(* C3: a constructed ALBMonitorStack has the queue registered as an event   *)
(* source of ALBSQSMessageLambda and of no other function; ALBAlarmLambda   *)
(* only holds the queue's URL in its environment.                           *)
C3_QueueConsumedByEnforcementOnly ==
    /\ \A id \in EventSourceMappings :
          /\ mResources[id].function = "ALBSQSMessageLambda"
          /\ mResources[id].queue = QueueId
          /\ Declared(mResources, "ALBSQSMessageLambda", "Function")
    /\ mpc = "done" =>
          /\ EventSourceMappings # {}
          /\ mResources["ALBAlarmLambda"].environment["SQS_QUEUE_URL"] = Ref(QueueId)

C3_Witness ==
    /\ mpc = "done"
    /\ \E id \in EventSourceMappings : mResources[id].queue = QueueId

(* C4: the alarm ALBTargetGroupAlarm evaluates its metric over 60 seconds   *)
(* with greater-than-threshold, its threshold and evaluation periods are    *)
(* the parameters cwAlarmThreshold and cwAlarmPeriods, and its namespace    *)
(* and metric name are the parameters cwAlarmNamespace and                  *)
(* cwAlarmMetricName, defaulting to AWS/ApplicationELB and                  *)
(* RequestCountPerTarget.                                                   *)
C4_AlarmConfiguration ==
    Declared(cResources, AlarmId, "Alarm") =>
        LET a == cResources[AlarmId]
        IN /\ a.metric.period = 60
           /\ a.comparison_operator = "GreaterThanThreshold"
           /\ a.threshold = Ref("cwAlarmThreshold")
           /\ a.evaluation_periods = Ref("cwAlarmPeriods")
           /\ a.metric.namespace = Ref("cwAlarmNamespace")
           /\ a.metric.metric_name = Ref("cwAlarmMetricName")
           /\ \A id \in {"cwAlarmThreshold", "cwAlarmPeriods",
                         "cwAlarmNamespace", "cwAlarmMetricName"} :
                 Declared(cResources, id, "CfnParameter")
           /\ cResources["cwAlarmNamespace"].default = "AWS/ApplicationELB"
           /\ cResources["cwAlarmMetricName"].default = "RequestCountPerTarget"

C4_Witness ==
    /\ cpc = "done"
    /\ Declared(cResources, AlarmId, "Alarm")

EventInputs ==
    [source : {"aws.cloudwatch", "aws.ec2"},
     detail_type : {"CloudWatch Alarm State Change", "CloudWatch Alarm Configuration Change"},
     resources : SUBSET {GetAtt(AlarmId, "Arn"), GetAtt("OtherAlarm", "Arn")}]

Invoked(rule, event) ==
    IF RuleMatches(rule.event_pattern, event)
    THEN {rule.targets[i].handler : i \in 1..Len(rule.targets)}
    ELSE {}

(* C5: the finished rule ALBTargetGroupAlarmEventRule matches exactly the   *)
(* events of source aws.cloudwatch, detail type CloudWatch Alarm State      *)
(* Change and a resource equal to the ARN of ALBTargetGroupAlarm; its only  *)
(* target is the function handed to the stack, so such an event invokes     *)
(* that function and any other event invokes nothing through the rule.      *)
C5_RuleRoutesAlarmToDecisionFunction ==
    /\ Declared(cResources, RuleId, "Rule") =>
          \A i \in 1..Len(cResources[RuleId].targets) :
             cResources[RuleId].targets[i].handler = alb_alarm_lambda
    /\ cpc = "done" =>
          /\ Declared(cResources, AlarmId, "Alarm")
          /\ Len(cResources[RuleId].targets) = 1
          /\ \A e \in EventInputs :
                LET stateChange ==
                       /\ e.source = "aws.cloudwatch"
                       /\ e.detail_type = "CloudWatch Alarm State Change"
                       /\ GetAtt(AlarmId, "Arn") \in e.resources
                IN Invoked(cResources[RuleId], e) =
                      IF stateChange THEN {alb_alarm_lambda} ELSE {}

C5_Witness ==
    /\ cpc = "done"
    /\ \E e \in EventInputs : Invoked(cResources[RuleId], e) = {alb_alarm_lambda}
    /\ \E e \in EventInputs : Invoked(cResources[RuleId], e) = {}

(* C6: ALBAlarmLambda has exactly the eight environment variables, each     *)
(* bound to its own parameter or to the URL of the created queue.           *)
C6_DecisionFunctionEnvironment ==
    Declared(mResources, "ALBAlarmLambda", "Function") =>
        LET env == mResources["ALBAlarmLambda"].environment
        IN /\ DOMAIN env = {"ELB_ARN", "ELB_LISTENER_ARN", "SQS_QUEUE_URL",
                            "ELB_SHED_PERCENT", "MAX_ELB_SHED_PERCENT",
                            "ELB_RESTORE_PERCENT", "SHED_MESG_DELAY_SEC",
                            "RESTORE_MESG_DELAY_SEC"}
           /\ env["ELB_ARN"] = Ref("elbArn")
           /\ env["ELB_LISTENER_ARN"] = Ref("elbListenerArn")
           /\ env["SQS_QUEUE_URL"] = Ref(QueueId)
           /\ env["ELB_SHED_PERCENT"] = Ref("elbShedPercent")
           /\ env["MAX_ELB_SHED_PERCENT"] = Ref("maxElbShedPercent")
           /\ env["ELB_RESTORE_PERCENT"] = Ref("elbRestorePercent")
           /\ env["SHED_MESG_DELAY_SEC"] = Ref("shedMesgDelaySec")
           /\ env["RESTORE_MESG_DELAY_SEC"] = Ref("restoreMesgDelaySec")
           /\ \A id \in {"elbArn", "elbListenerArn", "elbShedPercent", "maxElbShedPercent",
                         "elbRestorePercent", "shedMesgDelaySec", "restoreMesgDelaySec"} :
                 Declared(mResources, id, "CfnParameter")
           /\ Declared(mResources, QueueId, "Queue")

C6_Witness ==
    /\ Declared(mResources, "ALBAlarmLambda", "Function")
    /\ Cardinality(DOMAIN mResources["ALBAlarmLambda"].environment) = 8

Percentages == {"elbShedPercent", "maxElbShedPercent", "elbRestorePercent"}
Delays == {"shedMesgDelaySec", "restoreMesgDelaySec"}

ExpectedRange(id) == IF id \in Percentages THEN 0..100 ELSE 60..300

ExpectedDefault(id) ==
    CASE id = "elbShedPercent" -> 5
      [] id = "maxElbShedPercent" -> 100
      [] id = "elbRestorePercent" -> 5
      [] id = "shedMesgDelaySec" -> 60
      [] id = "restoreMesgDelaySec" -> 120

(* C7: each of the five numeric parameters declares 0..100 (percentages) or *)
(* 60..300 (delays) as min_value/max_value with its default 5, 100, 5, 60,  *)
(* 120 inside; a deployment is accepted exactly when every value lies in    *)
(* its range, so an accepted deployment has all five values in range.       *)
C7_NumericParametersBounded ==
    /\ \A id \in (Percentages \cup Delays) \cap DOMAIN mResources :
          /\ mResources[id].type = "Number"
          /\ mResources[id].min_value..mResources[id].max_value = ExpectedRange(id)
          /\ mResources[id].default = ExpectedDefault(id)
          /\ mResources[id].default \in ExpectedRange(id)
    /\ mpc = "done" => (Percentages \cup Delays) \subseteq DOMAIN mResources
    /\ deployment.status # "none" =>
          /\ DOMAIN deployment.values = Percentages \cup Delays
          /\ deployment.status = "accepted" <=>
                \A id \in Percentages \cup Delays :
                   deployment.values[id] \in ExpectedRange(id)

C7_Witness ==
    /\ deployment.status = "accepted"
    /\ \E id \in Delays : deployment.values[id] = 300

C7_RejectedWitness ==
    /\ deployment.status = "rejected"
    /\ \E id \in Delays : deployment.values[id] = 59

Functions ==
    {id \in DOMAIN mResources : mResources[id].kind = "Function"}

(* C8: every function of ALBMonitorStack runs under ALB_Lambda_Role, which  *)
(* only lambda.amazonaws.com may assume and which carries the send          *)
(* permission on the queue, CloudWatchReadOnlyAccess and                    *)
(* ElasticLoadBalancingFullAccess.                                          *)
C8_SharedExecutionRole ==
    /\ \A f \in Functions :
          /\ mResources[f].role = "ALB_Lambda_Role"
          /\ Declared(mResources, "ALB_Lambda_Role", "Role")
          /\ LET role == mResources["ALB_Lambda_Role"]
                 arns == {role.managed_policies[i].managed_policy_arn :
                             i \in 1..Len(role.managed_policies)}
             IN /\ role.assumed_by = <<"lambda.amazonaws.com">>
                /\ "arn:aws:iam::aws:policy/CloudWatchReadOnlyAccess" \in arns
                /\ "arn:aws:iam::aws:policy/ElasticLoadBalancingFullAccess" \in arns
                /\ \E i \in 1..Len(role.inline_policies) :
                      \E j \in 1..Len(role.inline_policies[i].statements) :
                         LET st == role.inline_policies[i].statements[j]
                         IN /\ st.effect = "Allow"
                            /\ st.actions = <<"sqs:SendMessage">>
                            /\ st.resources = <<GetAtt(QueueId, "Arn")>>
    /\ mpc = "done" => Functions = {"ALBAlarmLambda", "ALBSQSMessageLambda"}

C8_Witness ==
    /\ mpc = "done"
    /\ Functions = {"ALBAlarmLambda", "ALBSQSMessageLambda"}

MonitorLabels ==
    {"start", "elbArn", "elbListenerArn", "elbShedPercent", "maxElbShedPercent",
     "elbRestorePercent", "shedMesgDelaySec", "restoreMesgDelaySec", "queue",
     "send_sqs_json", "policy_document", "role", "layer", "alarm_lambda",
     "sqs_lambda", "add_event_source", "done"}

(* C9: with any string as elbTargetGroupArn, the empty one and one without  *)
(* "targetgroup" included, the construction of ALBCloudWatchStack raises    *)
(* nothing, always has a next statement to run until it is done, and ends   *)
(* with the alarm and the event rule declared; an error is raised only when *)
(* the value is absent; the construction of ALBMonitorStack has no          *)
(* raising step and runs to its end whatever the context is.                *)
C9_AbsenceIsTheOnlyError ==
    /\ context.present =>
          /\ cpc # "raised"
          /\ ~error.present
          /\ (CloudWatchMayRun /\ cpc # "done") => ENABLED CloudWatchNext
          /\ cpc = "done" =>
                /\ Declared(cResources, AlarmId, "Alarm")
                /\ Declared(cResources, RuleId, "Rule")
    /\ error.present => ~context.present
    /\ mpc \in MonitorLabels
    /\ (MonitorMayRun /\ mpc # "done") => ENABLED MonitorNext

C9_Witness ==
    /\ context.present
    /\ ~Contains(context.value, Needle)
    /\ cpc = "done"
    /\ Declared(cResources, AlarmId, "Alarm")

C9_MonitorWitness ==
    /\ ~context.present
    /\ mpc = "done"

IsSuffixFromFirstNeedle(arn, dim) ==
    \E i \in 1..Len(arn) :
       /\ SubSeq(arn, i, i + Len(Needle) - 1) = Needle
       /\ \A j \in 1..(i - 1) : SubSeq(arn, j, j + Len(Needle) - 1) # Needle
       /\ dim = SubSeq(arn, i, Len(arn))

(* C10: for every present elbTargetGroupArn the TargetGroup dimension of    *)
(* the alarm metric is the suffix of the ARN from the first occurrence of   *)
(* "targetgroup" to its end, and so begins with "targetgroup".              *)
C10_DimensionIsTargetGroupSuffix ==
    "request_count_per_target_metric" \in DOMAIN cLocals =>
        LET dim == cLocals["request_count_per_target_metric"].dimensions["TargetGroup"]
        IN /\ DOMAIN cLocals["request_count_per_target_metric"].dimensions = {"TargetGroup"}
           /\ IsSuffixFromFirstNeedle(context.value, dim)
           /\ SubSeq(dim, 1, Len(Needle)) = Needle

(* The case in which C10 does hold: the ARN contains "targetgroup" *)
C10_HoldsWhenNeedlePresent ==
    ("request_count_per_target_metric" \in DOMAIN cLocals /\ Contains(context.value, Needle)) =>
        LET dim == cLocals["request_count_per_target_metric"].dimensions["TargetGroup"]
        IN /\ IsSuffixFromFirstNeedle(context.value, dim)
           /\ SubSeq(dim, 1, Len(Needle)) = Needle

====
